---- MODULE Spec2Model ----
(***************************************************************************)
(* Model of omega/training/trainer.py: Trainer, DummyTrainer and           *)
(* OnPolicyTrainer.  The trainer drives three external collaborators (the  *)
(* batched environment stepper, the agent and an optional stats sink).     *)
(* Every call the trainer makes to a collaborator is appended to `trace`   *)
(* with its arguments and its result, so the properties below are stated   *)
(* over what the collaborators observe.                                    *)
(*                                                                         *)
(* Values returned by a collaborator are opaque to the trainer.  Each one  *)
(* is modelled per slot as a token <<kind, k, i>>: produced by the call    *)
(* logged at trace position k, for slot i.  Two different calls never      *)
(* return the same token, so any mix-up of steps or slots is visible.      *)
(*                                                                         *)
(* An exception raised by a collaborator propagates out of                 *)
(* run_training_step (the code has no try/except); the driver of the       *)
(* training run does not call the trainer again after that.                *)
(***************************************************************************)
EXTENDS Integers, Sequences, FiniteSets, TLC

\* ---------------------------------------------------------------- bounds
\* num_envs and num_collection_steps range over 0 .. these (the constructor
\* checks neither).
MaxEnvs == 2
MaxCollectionSteps == 2
\* A run is followed for at most MaxCalls calls of run_training_step, at most
\* MaxDaySteps day steps and at most MaxDone finished episodes in total.
MaxCalls == 2
MaxDaySteps == 4
MaxDone == 2

VARIABLES
    variant,                    \* which subclass of Trainer was constructed
    metadata_keys,              \* keys of the metadata dict the agent returns
    num_envs,                   \* self._num_envs
    num_collection_steps,       \* self._num_collection_steps
    current_episode_indices,    \* self._current_episode_indices
    next_episode_index,         \* self._next_episode_index
    agent_memory,               \* self._agent_memory
    current_state_batch_np,     \* self._current_state_batch_np
    pc,                         \* position of the driver thread in the code
    calls,                      \* number of run_training_step invocations so far
    stats,                      \* the stats argument of the running call
    step,                       \* loop variable of _run_day
    env_index,                  \* loop variable of the inner loop of _run_day
    transition_batches,         \* local list of _run_day
    action_batch_jax,           \* locals of one day step
    act_metadata_batch_jax,
    action_batch_np,
    reward_done_next_state_batch_np,
    reward_done_next_state_batch_jax,
    trajectory_batch,           \* result of _run_day, argument of _run_night
    trace,                      \* calls made to the collaborators, in order
    assigned                    \* per slot, every episode index it has held

vars == <<variant, metadata_keys, num_envs, num_collection_steps,
          current_episode_indices, next_episode_index, agent_memory, current_state_batch_np, pc, calls,
          stats, step, env_index, transition_batches, action_batch_jax,
          act_metadata_batch_jax, action_batch_np,
          reward_done_next_state_batch_np, reward_done_next_state_batch_jax,
          trajectory_batch, trace, assigned>>

config == <<variant, metadata_keys, num_envs, num_collection_steps>>
allocator == <<current_episode_indices, next_episode_index, assigned>>
carried == <<agent_memory, current_state_batch_np>>
step_locals == <<action_batch_jax, act_metadata_batch_jax, action_batch_np,
                 reward_done_next_state_batch_np,
                 reward_done_next_state_batch_jax>>

\* ------------------------------------------------------------ data values
Slots == 0 .. (num_envs - 1)

NoneValue == [backend |-> "none"]

\* A batched value: one opaque token per slot, living on one backend.
Batch(kind, k, backend) ==
    [backend |-> backend, data |-> [i \in Slots |-> <<kind, k, i>>]]

\* pytree.to_numpy(tree) / pytree.to_jax(tree) move every leaf of the tree to
\* the other backend and keep its content.  The action batch is a single
\* leaf, the step result is a dict of leaves.
to_numpy(leaf) == [leaf EXCEPT !.backend = "np"]
to_jax(tree) == [key \in DOMAIN tree |-> [tree[key] EXCEPT !.backend = "jax"]]

\* dict.get(key): the value, or None when the key is absent.
Get(dict, key) == IF key \in DOMAIN dict THEN dict[key] ELSE NoneValue

\* Number of true flags of a done batch.
RECURSIVE CountDone(_, _)
CountDone(done, n) ==
    IF n = 0 THEN 0
    ELSE CountDone(done, n - 1) + (IF done[n - 1] THEN 1 ELSE 0)

LoopHeadStopsEarly(s) == IF s + 1 < num_collection_steps THEN "act" ELSE "stack"

LoopHeadOneMore(s) == IF s <= num_collection_steps THEN "act" ELSE "stack"

LoopHeadTestsAfterBody(s) ==
    IF s = 0 \/ s < num_collection_steps THEN "act" ELSE "stack"

\* range(num_collection_steps): the loop runs its body while step is in range.
LoopHead(s) == IF s < num_collection_steps THEN "act" ELSE "stack"

\* pytree.stack(transition_batches, axis=1, result_backend='jax'): every leaf
\* of the result has the slot axis first and the time axis second.
StackLeaf(batches, key) ==
    [backend |-> "jax",
     data |-> [i \in Slots |->
                 [t \in 1 .. Len(batches) |-> batches[t][key].data[i]]]]
StackMetadata(batches) ==
    IF batches = <<>> THEN <<>>
    ELSE [key \in DOMAIN batches[1].act_metadata |->
            [backend |-> "jax",
             data |-> [i \in Slots |->
                 [t \in 1 .. Len(batches) |->
                     batches[t].act_metadata[key].data[i]]]]]
Stack(batches) ==
    [memory_before |-> StackLeaf(batches, "memory_before"),
     current_state |-> StackLeaf(batches, "current_state"),
     actions |-> StackLeaf(batches, "actions"),
     act_metadata |-> StackMetadata(batches),
     rewards |-> StackLeaf(batches, "rewards"),
     done |-> StackLeaf(batches, "done"),
     next_state |-> StackLeaf(batches, "next_state")]

\* ------------------------------------------------------------------- Init
\* Trainer.__init__: the state after construction.
Init ==
    /\ variant \in {"DummyTrainer", "OnPolicyTrainer"}
    /\ metadata_keys \in {{}, {"memory_state_after"}}
    /\ num_envs \in 0 .. MaxEnvs
    /\ num_collection_steps \in 0 .. MaxCollectionSteps
    /\ current_episode_indices = [i \in Slots |-> i]
    /\ next_episode_index = num_envs
    /\ assigned = [i \in Slots |-> <<i>>]
    /\ agent_memory = Batch("memory", 1, "jax")
    /\ current_state_batch_np = Batch("state", 2, "np")
    /\ trace = << [op |-> "init_memory_batch", n |-> num_envs,
                   ret |-> Batch("memory", 1, "jax")],
                  [op |-> "reset", ret |-> Batch("state", 2, "np")] >>
    /\ pc = "idle"
    /\ calls = 0
    /\ stats = "None"
    /\ step = 0
    /\ env_index = 0
    /\ transition_batches = <<>>
    /\ action_batch_jax = NoneValue
    /\ act_metadata_batch_jax = NoneValue
    /\ action_batch_np = NoneValue
    /\ reward_done_next_state_batch_np = NoneValue
    /\ reward_done_next_state_batch_jax = NoneValue
    /\ trajectory_batch = NoneValue

\* ---------------------------------------------------------------- actions
RunTrainingStepRestartsIndices ==
    /\ pc = "idle"
    /\ calls < MaxCalls
    /\ (calls + 1) * num_collection_steps <= MaxDaySteps
    /\ \E s \in {"None", "sink"} :
         /\ stats' = s
         /\ trace' = Append(trace, [op |-> "run_training_step", stats |-> s,
                                    call |-> calls + 1])
    /\ calls' = calls + 1
    /\ transition_batches' = <<>>
    /\ step' = 0
    /\ pc' = LoopHead(0)
    /\ current_episode_indices' = [i \in Slots |-> i]
    /\ next_episode_index' = num_envs
    /\ assigned' = [i \in Slots |-> Append(assigned[i], i)]
    /\ UNCHANGED <<config, carried, env_index, step_locals, trajectory_batch>>

\* run_training_step(stats): enters _run_day with an empty list.
RunTrainingStep ==
    /\ pc = "idle"
    /\ calls < MaxCalls
    /\ (calls + 1) * num_collection_steps <= MaxDaySteps
    /\ \E s \in {"None", "sink"} :
         /\ stats' = s
         /\ trace' = Append(trace, [op |-> "run_training_step", stats |-> s,
                                    call |-> calls + 1])
    /\ calls' = calls + 1
    /\ transition_batches' = <<>>
    /\ step' = 0
    /\ pc' = LoopHead(0)
    /\ UNCHANGED <<config, allocator, carried, env_index, step_locals,
                   trajectory_batch>>

\* self.agent.act_on_batch(state, memory) returns; actions copied to numpy.
ActOnBatch ==
    /\ pc = "act"
    /\ LET k == Len(trace) + 1
           actions == Batch("action", k, "jax")
           metadata == [key \in metadata_keys |-> Batch(key, k, "jax")]
       IN /\ action_batch_jax' = actions
          /\ act_metadata_batch_jax' = metadata
          /\ action_batch_np' = to_numpy(actions)
          /\ trace' = Append(trace,
                 [op |-> "act_on_batch", state |-> current_state_batch_np,
                  memory |-> agent_memory, actions |-> actions,
                  act_metadata |-> metadata])
    /\ pc' = "env_step"
    /\ UNCHANGED <<config, allocator, carried, calls, stats, step, env_index,
                   transition_batches, reward_done_next_state_batch_np,
                   reward_done_next_state_batch_jax, trajectory_batch>>

RaiseSwallowed(source) ==
    /\ pc' = pc
    /\ trace' = Append(trace, [op |-> "raise", source |-> source])
    /\ UNCHANGED <<config, allocator, carried, calls, stats, step, env_index,
                   transition_batches, step_locals, trajectory_batch>>

\* An exception leaves run_training_step through every frame.
Raise(source) ==
    /\ pc' = "raised"
    /\ trace' = Append(trace, [op |-> "raise", source |-> source])
    /\ UNCHANGED <<config, allocator, carried, calls, stats, step, env_index,
                   transition_batches, step_locals, trajectory_batch>>

ActOnBatchRaises ==
    /\ pc = "act"
    /\ Raise("act_on_batch")

\* self._batched_env_stepper.step(action_batch_np) returns; result to jax.
EnvStep ==
    /\ pc = "env_step"
    /\ \E done \in [Slots -> BOOLEAN] :
         LET k == Len(trace) + 1
             result == [rewards |-> Batch("reward", k, "np"),
                        done |-> [backend |-> "np", data |-> done],
                        next_state |-> Batch("state", k, "np")]
         IN /\ next_episode_index - num_envs + CountDone(done, num_envs)
                  <= MaxDone
            /\ reward_done_next_state_batch_np' = result
            /\ reward_done_next_state_batch_jax' = to_jax(result)
            /\ trace' = Append(trace,
                   [op |-> "step", actions |-> action_batch_np,
                    rewards |-> result.rewards, done |-> result.done,
                    next_state |-> result.next_state])
    /\ env_index' = 0
    /\ pc' = IF num_envs > 0 THEN "env_loop" ELSE "append"
    /\ UNCHANGED <<config, allocator, carried, calls, stats, step,
                   transition_batches, action_batch_jax,
                   act_metadata_batch_jax, action_batch_np, trajectory_batch>>

EnvStepRaises ==
    /\ pc = "env_step"
    /\ Raise("step")

AddTransitionOnlyWhenDone(log) ==
    IF stats # "None" /\ reward_done_next_state_batch_np.done.data[env_index]
    THEN Append(log,
           [op |-> "add_transition",
            episode_index |-> current_episode_indices[env_index],
            action |-> action_batch_np.data[env_index],
            reward |-> reward_done_next_state_batch_np.rewards.data[env_index],
            done |-> reward_done_next_state_batch_np.done.data[env_index]])
    ELSE log

\* Lines 61-67: the stats call of one slot, made when a sink was passed.
AddTransition(log) ==
    IF stats # "None"
    THEN Append(log,
           [op |-> "add_transition",
            episode_index |-> current_episode_indices[env_index],
            action |-> action_batch_np.data[env_index],
            reward |-> reward_done_next_state_batch_np.rewards.data[env_index],
            done |-> reward_done_next_state_batch_np.done.data[env_index]])
    ELSE log

AllocateEpisodeIndexNoIncrement ==
    IF reward_done_next_state_batch_np.done.data[env_index]
    THEN /\ current_episode_indices' =
               [current_episode_indices EXCEPT ![env_index] = next_episode_index]
         /\ next_episode_index' = next_episode_index
         /\ assigned' = [assigned EXCEPT
               ![env_index] = Append(@, next_episode_index)]
    ELSE UNCHANGED allocator

AllocateEpisodeIndexAlways ==
    /\ current_episode_indices' =
           [current_episode_indices EXCEPT ![env_index] = next_episode_index]
    /\ next_episode_index' = next_episode_index + 1
    /\ assigned' = [assigned EXCEPT
           ![env_index] = Append(@, next_episode_index)]

AllocateEpisodeIndexOnlyWithSink ==
    IF stats # "None" /\ reward_done_next_state_batch_np.done.data[env_index]
    THEN /\ current_episode_indices' =
               [current_episode_indices EXCEPT ![env_index] = next_episode_index]
         /\ next_episode_index' = next_episode_index + 1
         /\ assigned' = [assigned EXCEPT
               ![env_index] = Append(@, next_episode_index)]
    ELSE UNCHANGED allocator

\* Lines 69-72: a done slot takes next_episode_index, which then grows by one.
AllocateEpisodeIndex ==
    IF reward_done_next_state_batch_np.done.data[env_index]
    THEN /\ current_episode_indices' =
               [current_episode_indices EXCEPT ![env_index] = next_episode_index]
         /\ next_episode_index' = next_episode_index + 1
         /\ assigned' = [assigned EXCEPT
               ![env_index] = Append(@, next_episode_index)]
    ELSE UNCHANGED allocator

EnvLoopAllocatesFirst ==
    /\ pc = "env_loop"
    /\ AllocateEpisodeIndex
    /\ trace' =
         IF stats # "None"
         THEN Append(trace,
                [op |-> "add_transition",
                 episode_index |-> current_episode_indices'[env_index],
                 action |-> action_batch_np.data[env_index],
                 reward |->
                     reward_done_next_state_batch_np.rewards.data[env_index],
                 done |-> reward_done_next_state_batch_np.done.data[env_index]])
         ELSE trace
    /\ env_index' = env_index + 1
    /\ pc' = IF env_index + 1 < num_envs THEN "env_loop" ELSE "append"
    /\ UNCHANGED <<config, carried, calls, stats, step, transition_batches,
                   step_locals, trajectory_batch>>

EnvLoop ==
    /\ pc = "env_loop"
    /\ trace' = AddTransition(trace)
    /\ AllocateEpisodeIndex
    /\ env_index' = env_index + 1
    /\ pc' = IF env_index + 1 < num_envs THEN "env_loop" ELSE "append"
    /\ UNCHANGED <<config, carried, calls, stats, step, transition_batches,
                   step_locals, trajectory_batch>>

TransitionRecordAfterStep ==
    [memory_before |-> agent_memory,
     current_state |-> reward_done_next_state_batch_np.next_state,
     actions |-> action_batch_jax,
     act_metadata |-> act_metadata_batch_jax,
     rewards |-> reward_done_next_state_batch_jax.rewards,
     done |-> reward_done_next_state_batch_jax.done,
     next_state |-> reward_done_next_state_batch_jax.next_state]

\* transition_batches.append(dict(...)).
TransitionRecord ==
    [memory_before |-> agent_memory,
     current_state |-> current_state_batch_np,
     actions |-> action_batch_jax,
     act_metadata |-> act_metadata_batch_jax,
     rewards |-> reward_done_next_state_batch_jax.rewards,
     done |-> reward_done_next_state_batch_jax.done,
     next_state |-> reward_done_next_state_batch_jax.next_state]

AppendTransitionPrepends ==
    /\ pc = "append"
    /\ transition_batches' = <<TransitionRecord>> \o transition_batches
    /\ pc' = "update_memory"
    /\ UNCHANGED <<config, allocator, carried, calls, stats, step, env_index,
                   step_locals, trajectory_batch, trace>>

AppendTransition ==
    /\ pc = "append"
    /\ transition_batches' = Append(transition_batches, TransitionRecord)
    /\ pc' = "update_memory"
    /\ UNCHANGED <<config, allocator, carried, calls, stats, step, env_index,
                   step_locals, trajectory_batch, trace>>

UpdateMemoryBatchResetsOnDone ==
    /\ pc = "update_memory"
    /\ LET k == Len(trace) + 1
           ret == Batch("memory", k, "jax")
           any_done == \E i \in Slots :
                           reward_done_next_state_batch_np.done.data[i]
       IN /\ agent_memory' = ret
          /\ trace' = Append(trace,
                 [op |-> "update_memory_batch",
                  prev_memory |->
                      IF any_done THEN Batch("memory", 1, "jax")
                      ELSE agent_memory,
                  new_memory_state |->
                      Get(act_metadata_batch_jax, "memory_state_after"),
                  actions |-> action_batch_jax,
                  done |-> reward_done_next_state_batch_jax.done,
                  ret |-> ret])
    /\ pc' = "advance"
    /\ UNCHANGED <<config, allocator, current_state_batch_np, calls, stats,
                   step, env_index, transition_batches, step_locals,
                   trajectory_batch>>

\* self._agent_memory = self.agent.update_memory_batch(...) returns.
UpdateMemoryBatch ==
    /\ pc = "update_memory"
    /\ LET k == Len(trace) + 1
           ret == Batch("memory", k, "jax")
       IN /\ agent_memory' = ret
          /\ trace' = Append(trace,
                 [op |-> "update_memory_batch",
                  prev_memory |-> agent_memory,
                  new_memory_state |->
                      Get(act_metadata_batch_jax, "memory_state_after"),
                  actions |-> action_batch_jax,
                  done |-> reward_done_next_state_batch_jax.done,
                  ret |-> ret])
    /\ pc' = "advance"
    /\ UNCHANGED <<config, allocator, current_state_batch_np, calls, stats,
                   step, env_index, transition_batches, step_locals,
                   trajectory_batch>>

UpdateMemoryBatchRaises ==
    /\ pc = "update_memory"
    /\ Raise("update_memory_batch")

AdvanceStateStale ==
    /\ pc = "advance"
    /\ current_state_batch_np' = current_state_batch_np
    /\ step' = step + 1
    /\ pc' = LoopHead(step + 1)
    /\ UNCHANGED <<config, allocator, agent_memory, calls, stats, env_index,
                   transition_batches, step_locals, trajectory_batch, trace>>

AdvanceStateResetsOnDone ==
    /\ pc = "advance"
    /\ IF \E i \in Slots : reward_done_next_state_batch_np.done.data[i]
       THEN /\ current_state_batch_np' = Batch("state", Len(trace) + 1, "np")
            /\ trace' = Append(trace,
                   [op |-> "reset",
                    ret |-> Batch("state", Len(trace) + 1, "np")])
       ELSE /\ current_state_batch_np' =
                   reward_done_next_state_batch_np.next_state
            /\ trace' = trace
    /\ step' = step + 1
    /\ pc' = LoopHead(step + 1)
    /\ UNCHANGED <<config, allocator, agent_memory, calls, stats, env_index,
                   transition_batches, step_locals, trajectory_batch>>

\* self._current_state_batch_np = ...['next_state']; next loop iteration.
AdvanceState ==
    /\ pc = "advance"
    /\ current_state_batch_np' = reward_done_next_state_batch_np.next_state
    /\ step' = step + 1
    /\ pc' = LoopHead(step + 1)
    /\ UNCHANGED <<config, allocator, agent_memory, calls, stats, env_index,
                   transition_batches, step_locals, trajectory_batch, trace>>

\* return self._stack_transition_batches(transition_batches); _run_night is
\* entered with the result.
StackTransitionBatches ==
    /\ pc = "stack"
    /\ trajectory_batch' = Stack(transition_batches)
    /\ pc' = "night"
    /\ trace' = Append(trace, [op |-> "_run_night", stats |-> stats])
    /\ UNCHANGED <<config, allocator, carried, calls, stats, step, env_index,
                   transition_batches, step_locals>>

\* run_training_step returns: its locals and those of _run_day are gone.
Return ==
    /\ pc' = "idle"
    /\ stats' = "None"
    /\ step' = 0
    /\ env_index' = 0
    /\ transition_batches' = <<>>
    /\ action_batch_jax' = NoneValue
    /\ act_metadata_batch_jax' = NoneValue
    /\ action_batch_np' = NoneValue
    /\ reward_done_next_state_batch_np' = NoneValue
    /\ reward_done_next_state_batch_jax' = NoneValue
    /\ trajectory_batch' = NoneValue
    /\ UNCHANGED <<config, allocator, carried, calls>>

DummyRunNightTrains ==
    /\ pc = "night"
    /\ variant = "DummyTrainer"
    /\ trace' = trace \o
           << [op |-> "train_on_batch", batch |-> trajectory_batch,
               ret |-> <<"training_stats", Len(trace) + 1>>],
              [op |-> "return"] >>
    /\ Return

\* DummyTrainer._run_night: pass.
DummyRunNight ==
    /\ pc = "night"
    /\ variant = "DummyTrainer"
    /\ trace' = Append(trace, [op |-> "return"])
    /\ Return

collected_trajectories_last_step ==
    IF transition_batches = <<>> THEN trajectory_batch
    ELSE Stack(<<transition_batches[Len(transition_batches)]>>)

\* The second parameter of _run_night: the result of _run_day.
collected_trajectories == trajectory_batch

\* OnPolicyTrainer._run_night: train_on_batch returns, then the statistics go
\* to stats.add_rolling_stats; with stats = None that attribute access raises.
OnPolicyRunNight ==
    /\ pc = "night"
    /\ variant = "OnPolicyTrainer"
    /\ LET k == Len(trace) + 1
           training_stats == <<"training_stats", k>>
           trained == Append(trace,
               [op |-> "train_on_batch", batch |-> collected_trajectories,
                ret |-> training_stats])
       IN IF stats = "None"
          THEN /\ pc' = "raised"
               /\ trace' = Append(trained,
                      [op |-> "raise", source |-> "add_rolling_stats"])
               /\ UNCHANGED <<config, allocator, carried, calls, stats, step,
                              env_index, transition_batches, step_locals,
                              trajectory_batch>>
          ELSE /\ trace' = trained \o
                      << [op |-> "add_rolling_stats",
                          training_stats |-> training_stats],
                         [op |-> "return"] >>
               /\ Return

TrainOnBatchRaises ==
    /\ pc = "night"
    /\ variant = "OnPolicyTrainer"
    /\ Raise("train_on_batch")

Next ==
    \/ RunTrainingStep
    \/ ActOnBatch
    \/ ActOnBatchRaises
    \/ EnvStep
    \/ EnvStepRaises
    \/ EnvLoop
    \/ AppendTransition
    \/ UpdateMemoryBatch
    \/ UpdateMemoryBatchRaises
    \/ AdvanceState
    \/ StackTransitionBatches
    \/ DummyRunNight
    \/ OnPolicyRunNight
    \/ TrainOnBatchRaises

Spec == Init /\ [][Next]_vars

\* ------------------------------------------------- reading the call trace
Ops(op) == {k \in DOMAIN trace : trace[k].op = op}

CallStarts == Ops("run_training_step")

\* The trace positions of one run_training_step call that starts at s.
CallEnd(s) ==
    LET next == {n \in CallStarts : trace[n].call = trace[s].call + 1}
    IN IF next = {} THEN Len(trace) ELSE (CHOOSE n \in next : TRUE) - 1
InCall(s) == (s + 1) .. CallEnd(s)
OpsInCall(s, op) == {k \in InCall(s) : trace[k].op = op}

Returned(s) == OpsInCall(s, "return") # {}
DayCompleted(s) == OpsInCall(s, "_run_night") # {}

Max(S) == CHOOSE x \in S : \A y \in S : y <= x

\* The latest call of one kind before position k (0 when there is none).
RECURSIVE LastBefore(_, _)
LastBefore(op, k) ==
    IF k <= 1 THEN 0
    ELSE IF trace[k - 1].op = op THEN k - 1
    ELSE LastBefore(op, k - 1)

\* How many episodes of slot i ended in the environment steps before position p.
DoneBefore(i, p) ==
    Cardinality({j \in Ops("step") : j < p /\ trace[j].done.data[i]})

IsActOrStep(e) == e.op \in {"act_on_batch", "step"}
ActsAndSteps(s) == SelectSeq(SubSeq(trace, s + 1, CallEnd(s)), IsActOrStep)

DayOps == {"act_on_batch", "step", "add_transition", "update_memory_batch"}

\* ------------------------------------------------------------------ claims

\* C1: for every slot i the episode indices held by current_episode_indices[i]
\* over time start at i, are strictly increasing, end with the index the slot
\* holds now, and no index is ever held by two different slots.
C1_EpisodeIndicesUnique ==
    \A i \in Slots :
        /\ assigned[i][1] = i
        /\ assigned[i][Len(assigned[i])] = current_episode_indices[i]
        /\ \A a, b \in 1 .. Len(assigned[i]) :
               a < b => assigned[i][a] < assigned[i][b]
        /\ \A j \in Slots \ {i} :
               \A a \in 1 .. Len(assigned[i]), b \in 1 .. Len(assigned[j]) :
                   assigned[i][a] # assigned[j][b]

C1_Witness ==
    /\ calls = 2
    /\ \/ \E i, j \in Slots :
              i # j /\ Len(assigned[i]) >= 2 /\ Len(assigned[j]) >= 2
       \/ \E i \in Slots : Len(assigned[i]) >= 3

\* C2: every transition recorded for a slot is recorded under the index of the
\* episode the slot was running when the step began (the index it got after
\* its previous terminations), also when the step ends that episode; so under
\* one episode index no transition follows a transition with done = true.
C2_DoneRecordedUnderOldIndex ==
    \A k \in Ops("add_transition") :
        LET p == LastBefore("step", k)
            i == k - p - 1
        IN /\ i \in Slots
           /\ trace[k].done = trace[p].done.data[i]
           /\ trace[k].episode_index = assigned[i][DoneBefore(i, p) + 1]
           /\ \A j \in Ops("add_transition") :
                  (j < k /\ trace[j].episode_index = trace[k].episode_index)
                      => ~trace[j].done

C2_Witness ==
    \E j, k \in Ops("add_transition") :
        /\ j < k
        /\ trace[k].done
        /\ trace[j].episode_index = trace[k].episode_index
        /\ \E m \in Ops("add_transition") :
               m > k /\ k - LastBefore("step", k) = m - LastBefore("step", m)

\* C3: in every run_training_step call the night stage is entered at most
\* once, only after num_collection_steps complete day steps (act, environment
\* step, memory update, observation advance), no day step follows it, and a
\* call that returns has entered it exactly once.
C3_DayThenNight ==
    /\ \A s \in CallStarts :
           LET nights == OpsInCall(s, "_run_night")
               segment == InCall(s)
           IN /\ Cardinality(nights) <= 1
              /\ Returned(s) => Cardinality(nights) = 1
              /\ \A n \in nights :
                     /\ \A op \in {"act_on_batch", "step",
                                    "update_memory_batch"} :
                            Cardinality({k \in segment :
                                            trace[k].op = op /\ k < n})
                                = num_collection_steps
                     /\ \A k \in segment : trace[k].op \in DayOps => k < n
    /\ pc = "night" =>
           /\ step = num_collection_steps
           /\ Len(transition_batches) = num_collection_steps
           /\ num_collection_steps > 0 =>
                  current_state_batch_np =
                      trace[LastBefore("step", Len(trace) + 1)].next_state

C3_Witness ==
    /\ num_collection_steps = 2
    /\ num_envs = 2
    /\ pc = "idle"
    /\ Cardinality(Ops("return")) = 2

\* C4: a run_training_step call whose day stage completes makes exactly
\* num_collection_steps act_on_batch calls and as many environment step
\* calls, alternating act then step, and every step call gets the actions
\* of the act before it, one for each of the num_envs slots.
C4_ActStepAlternate ==
    \A s \in CallStarts :
        LET q == ActsAndSteps(s)
        IN /\ Len(q) <= 2 * num_collection_steps
           /\ DayCompleted(s) => Len(q) = 2 * num_collection_steps
           /\ \A j \in 1 .. Len(q) :
                  IF j % 2 = 1
                  THEN q[j].op = "act_on_batch"
                  ELSE /\ q[j].op = "step"
                       /\ DOMAIN q[j].actions.data = 0 .. (num_envs - 1)
                       /\ q[j].actions.data = q[j - 1].actions.data

C4_Witness ==
    /\ num_collection_steps = 2
    /\ num_envs = 2
    /\ \E s \in CallStarts : DayCompleted(s) /\ Len(ActsAndSteps(s)) = 4

\* C5: every act_on_batch call receives the next_state returned by the latest
\* environment step (the result of reset() before the first one) and the
\* memory returned by the latest update_memory_batch (the result of
\* init_memory_batch before the first one), within a call and across calls;
\* between two acts there is exactly one environment step and one memory
\* update.
C5_StateCarry ==
    \A k \in Ops("act_on_batch") :
        LET st == LastBefore("step", k)
            up == LastBefore("update_memory_batch", k)
            prev == LastBefore("act_on_batch", k)
        IN /\ trace[k].state =
                  IF st = 0 THEN trace[LastBefore("reset", k)].ret
                  ELSE trace[st].next_state
           /\ trace[k].memory =
                  IF up = 0 THEN trace[LastBefore("init_memory_batch", k)].ret
                  ELSE trace[up].ret
           /\ prev < st \/ (prev = 0 /\ st = 0)
           /\ prev < up \/ (prev = 0 /\ up = 0)
           /\ prev > 0 =>
                  /\ Cardinality({j \in Ops("step") : prev < j /\ j < k}) = 1
                  /\ Cardinality({j \in Ops("update_memory_batch") :
                                     prev < j /\ j < k}) = 1
                  /\ st < up

C5_Witness ==
    \E k \in Ops("act_on_batch") :
        /\ LastBefore("run_training_step", k) > LastBefore("step", k)
        /\ LastBefore("step", k) > 0
        /\ num_collection_steps = 2
        /\ num_envs = 2

\* The stacked batch holds, at slot i and time t, what the t-th act and the
\* t-th environment step of the call starting at s produced for slot i.
BatchMatchesCall(batch, s) ==
    LET q == ActsAndSteps(s)
        h == num_collection_steps
        leaves == {"memory_before", "current_state", "actions", "rewards",
                   "done", "next_state"}
    IN /\ Len(q) = 2 * h
       /\ \A key \in leaves :
              /\ DOMAIN batch[key].data = Slots
              /\ \A i \in Slots : Len(batch[key].data[i]) = h
       /\ \A i \in Slots : \A t \in 1 .. h :
              /\ batch.memory_before.data[i][t] = q[2 * t - 1].memory.data[i]
              /\ batch.current_state.data[i][t] = q[2 * t - 1].state.data[i]
              /\ batch.actions.data[i][t] = q[2 * t - 1].actions.data[i]
              /\ \A key \in metadata_keys :
                     batch.act_metadata[key].data[i][t] =
                         q[2 * t - 1].act_metadata[key].data[i]
              /\ batch.rewards.data[i][t] = q[2 * t].rewards.data[i]
              /\ batch.done.data[i][t] = q[2 * t].done.data[i]
              /\ batch.next_state.data[i][t] = q[2 * t].next_state.data[i]

\* C6: the trajectory batch the day stage returns has num_collection_steps
\* time positions for each of the num_envs slots, and position t of slot i
\* holds the transition of day step t of the same call for slot i.
C6_StackingPreservesOrder ==
    pc = "night" => BatchMatchesCall(trajectory_batch, Max(CallStarts))

C6_Witness ==
    /\ pc = "night"
    /\ calls = 2
    /\ num_collection_steps = 2
    /\ num_envs = 2
    /\ metadata_keys # {}

\* C7: in the on-policy variant a call makes at most one train_on_batch call,
\* after the day stage, with the whole trajectory batch of that call; the
\* statistics it returns are what add_rolling_stats receives next; a call
\* that returns has made exactly one call of each.
C7_OnPolicyTrainsOnce ==
    variant = "OnPolicyTrainer" =>
        \A s \in CallStarts :
            LET trains == OpsInCall(s, "train_on_batch")
                rolls == OpsInCall(s, "add_rolling_stats")
            IN /\ Cardinality(trains) <= 1
               /\ Cardinality(rolls) <= 1
               /\ Returned(s) =>
                      Cardinality(trains) = 1 /\ Cardinality(rolls) = 1
               /\ \A t \in trains :
                      /\ trace[t - 1].op = "_run_night"
                      /\ BatchMatchesCall(trace[t].batch, s)
               /\ \A r \in rolls :
                      /\ r - 1 \in trains
                      /\ trace[r].training_stats = trace[r - 1].ret

C7_Witness ==
    /\ variant = "OnPolicyTrainer"
    /\ num_collection_steps = 2
    /\ num_envs = 2
    /\ pc = "idle"
    /\ Cardinality(Ops("add_rolling_stats")) = 2

\* C8: in the no-op variant train_on_batch and add_rolling_stats are never
\* called, and the night stage of a call makes no call at all before the
\* call returns.
C8_DummyNightIsNoOp ==
    variant = "DummyTrainer" =>
        /\ Ops("train_on_batch") = {}
        /\ Ops("add_rolling_stats") = {}
        /\ \A s \in CallStarts :
               \A n \in OpsInCall(s, "_run_night") :
                   \A k \in (n + 1) .. CallEnd(s) :
                       k = n + 1 /\ trace[k].op = "return"

C8_Witness ==
    /\ variant = "DummyTrainer"
    /\ num_collection_steps = 2
    /\ num_envs = 2
    /\ \E n \in Ops("_run_night") :
           trace[n].stats = "sink" /\ n < Len(trace) /\ trace[n + 1].op = "return"

\* C9: a call that was given a stats sink and completes its day stage makes
\* num_envs * num_collection_steps add_transition calls: after every
\* environment step one per slot, in slot order, with the episode index the
\* slot held when the step began and the slot's action, reward and done flag
\* of that step; a call without a sink makes none.  add_rolling_stats is
\* called once in a returning on-policy call and never in the no-op variant.
C9_StatsSinkCalls ==
    \A s \in CallStarts :
        /\ trace[s].stats = "None" => OpsInCall(s, "add_transition") = {}
        /\ (trace[s].stats = "sink" /\ DayCompleted(s)) =>
               /\ Cardinality(OpsInCall(s, "add_transition"))
                      = num_envs * num_collection_steps
               /\ \A p \in OpsInCall(s, "step") : \A i \in Slots :
                      LET e == trace[p + 1 + i]
                      IN /\ e.op = "add_transition"
                         /\ e.episode_index = assigned[i][DoneBefore(i, p) + 1]
                         /\ e.action = trace[p].actions.data[i]
                         /\ e.reward = trace[p].rewards.data[i]
                         /\ e.done = trace[p].done.data[i]
        /\ variant = "DummyTrainer" => OpsInCall(s, "add_rolling_stats") = {}
        /\ (variant = "OnPolicyTrainer" /\ Returned(s)) =>
               Cardinality(OpsInCall(s, "add_rolling_stats")) = 1

C9_Witness ==
    /\ num_collection_steps = 2
    /\ num_envs = 2
    /\ \E s \in CallStarts :
           /\ trace[s].stats = "sink"
           /\ DayCompleted(s)
           /\ Cardinality(OpsInCall(s, "add_transition")) = 4
           /\ \E k \in OpsInCall(s, "add_transition") : trace[k].done

\* C10: when a collaborator raises, the exception ends the call: the failing
\* call is the last call the trainer ever makes (no retry, no further day
\* step, no night stage after a failure of the day stage), the trainer takes
\* no further step, and every batch that was handed to train_on_batch holds
\* all num_collection_steps transitions of all slots.
C10_FailureEndsTheCall ==
    /\ \A k \in Ops("raise") :
           /\ k = Len(trace)
           /\ pc = "raised"
           /\ trace[k].source \in {"act_on_batch", "step", "update_memory_batch"}
                  => OpsInCall(LastBefore("run_training_step", k),
                               "_run_night") = {}
           /\ OpsInCall(LastBefore("run_training_step", k), "return") = {}
    /\ pc = "raised" => trace[Len(trace)].op = "raise"
    /\ \A t \in Ops("train_on_batch") :
           BatchMatchesCall(trace[t].batch, LastBefore("run_training_step", t))

C10_Witness ==
    /\ pc = "raised"
    /\ calls = 2
    /\ step = 1
    /\ trace[Len(trace)].source = "update_memory_batch"
    /\ num_envs = 2

\* C11: a call of run_training_step without a stats sink completes in every
\* variant: the trainer makes no stats-sink call in it and never fails on the
\* missing sink (it ends only by returning or by a collaborator's exception).
C11_NoSinkCallCompletes ==
    \A s \in CallStarts :
        trace[s].stats = "None" =>
            /\ OpsInCall(s, "add_transition") = {}
            /\ \A k \in OpsInCall(s, "raise") :
                   trace[k].source # "add_rolling_stats"

\* C12: no trainer with num_envs = 0 or num_collection_steps = 0 exists after
\* construction, so none ever runs run_training_step.
C12_MalformedConfigRejected ==
    calls > 0 => (num_envs > 0 /\ num_collection_steps > 0)

\* C13: with num_collection_steps = 0 a call makes no act, environment step,
\* stats or memory-update call, leaves the observation, the memory and the
\* episode index table as construction left them, hands a batch with zero
\* time positions per slot to the night stage, and returns in the no-op
\* variant.
C13_ZeroStepsDay ==
    num_collection_steps = 0 =>
        /\ \A k \in DOMAIN trace : trace[k].op \notin DayOps
        /\ agent_memory = trace[1].ret
        /\ current_state_batch_np = trace[2].ret
        /\ current_episode_indices = [i \in Slots |-> i]
        /\ next_episode_index = num_envs
        /\ \A s \in CallStarts :
               (s < Len(trace) \/ pc # "stack") =>
                   /\ s < Len(trace)
                   /\ trace[s + 1].op = "_run_night"
                   /\ (variant = "DummyTrainer" /\ pc # "night") =>
                          (s + 2 <= Len(trace) /\ trace[s + 2].op = "return")
        /\ pc = "night" =>
               /\ trajectory_batch.act_metadata = <<>>
               /\ \A key \in {"memory_before", "current_state", "actions",
                              "rewards", "done", "next_state"} :
                      /\ DOMAIN trajectory_batch[key].data = Slots
                      /\ \A i \in Slots :
                             trajectory_batch[key].data[i] = <<>>
        /\ variant = "DummyTrainer" => pc # "raised"

C13_Witness ==
    /\ num_collection_steps = 0
    /\ num_envs = 2
    /\ variant = "DummyTrainer"
    /\ pc = "idle"
    /\ calls = 2
    /\ trace[Len(trace)].op = "return"

\* C14: every environment step is followed, before the next act, by exactly
\* one update_memory_batch call; it receives the memory that step's act
\* received, that act's actions and optional memory_state_after, and that
\* step's done flags, whatever they are; the memory the trainer holds is
\* always the latest result (never reset by the trainer).  With one slot that
\* is done at every step, after k steps the slot holds episode index k and
\* every update_memory_batch call had done = true.
C14_MemoryUpdatedEveryStep ==
    /\ \A u \in Ops("update_memory_batch") :
           LET a == LastBefore("act_on_batch", u)
               st == LastBefore("step", u)
           IN /\ 0 < a /\ a < st
              /\ LastBefore("update_memory_batch", u) < a
              /\ trace[u].prev_memory = trace[a].memory
              /\ trace[u].actions = trace[a].actions
              /\ trace[u].new_memory_state =
                     Get(trace[a].act_metadata, "memory_state_after")
              /\ trace[u].done.data = trace[st].done.data
    /\ \A st \in Ops("step") :
           \/ \E u \in Ops("update_memory_batch") :
                  u > st /\ LastBefore("step", u) = st
           \/ /\ st = LastBefore("step", Len(trace) + 1)
              /\ pc \in {"env_loop", "append", "update_memory", "raised"}
    /\ LET u == LastBefore("update_memory_batch", Len(trace) + 1)
       IN agent_memory = IF u = 0 THEN trace[1].ret ELSE trace[u].ret
    /\ (num_envs = 1 /\ \A st \in Ops("step") : trace[st].done.data[0]) =>
           /\ \A u \in Ops("update_memory_batch") : trace[u].done.data[0]
           /\ pc # "env_loop" =>
                  current_episode_indices[0] = Cardinality(Ops("step"))
           /\ pc \in {"idle", "act", "stack", "night"} =>
                  Cardinality(Ops("update_memory_batch"))
                      = Cardinality(Ops("step"))

C14_Witness ==
    /\ num_envs = 1
    /\ pc = "idle"
    /\ Cardinality(Ops("update_memory_batch")) = 2
    /\ \A u \in Ops("update_memory_batch") : trace[u].done.data[0]
    /\ current_episode_indices[0] = 2

\* C15: reset() is called once, at construction, before any
\* run_training_step call and never again; after a step that reports done
\* for some slot, the next act receives that step's next_state.
C15_ResetOnlyAtConstruction ==
    /\ Ops("reset") = {2}
    /\ \A s \in CallStarts : s > 2
    /\ \A k \in Ops("act_on_batch") :
           LET st == LastBefore("step", k)
           IN (st > 0 /\ \E i \in Slots : trace[st].done.data[i]) =>
                  /\ trace[k].state = trace[st].next_state
                  /\ trace[k].state # trace[2].ret

C15_Witness ==
    /\ calls = 2
    /\ pc = "idle"
    /\ num_collection_steps = 2
    /\ \E k \in Ops("act_on_batch") :
           LET st == LastBefore("step", k)
           IN /\ st > 0
              /\ \A i \in Slots : trace[st].done.data[i]
              /\ num_envs = 2

\* Trainer.__init__ with the configuration of the scenario of C16: four slots
\* and three collection steps.
InitScenario ==
    /\ variant \in {"DummyTrainer", "OnPolicyTrainer"}
    /\ metadata_keys \in {{}, {"memory_state_after"}}
    /\ num_envs = 4
    /\ num_collection_steps = 3
    /\ current_episode_indices = [i \in Slots |-> i]
    /\ next_episode_index = num_envs
    /\ assigned = [i \in Slots |-> <<i>>]
    /\ agent_memory = Batch("memory", 1, "jax")
    /\ current_state_batch_np = Batch("state", 2, "np")
    /\ trace = << [op |-> "init_memory_batch", n |-> num_envs,
                   ret |-> Batch("memory", 1, "jax")],
                  [op |-> "reset", ret |-> Batch("state", 2, "np")] >>
    /\ pc = "idle"
    /\ calls = 0
    /\ stats = "None"
    /\ step = 0
    /\ env_index = 0
    /\ transition_batches = <<>>
    /\ action_batch_jax = NoneValue
    /\ act_metadata_batch_jax = NoneValue
    /\ action_batch_np = NoneValue
    /\ reward_done_next_state_batch_np = NoneValue
    /\ reward_done_next_state_batch_jax = NoneValue
    /\ trajectory_batch = NoneValue

ScenarioSpec == InitScenario /\ [][Next]_vars

\* Finished episodes, over all slots, in the environment steps before p.
TotalDoneBefore(p) ==
    Cardinality({x \in Ops("step") \X Slots :
                    x[1] < p /\ trace[x[1]].done.data[x[2]]})

\* C16: a day step gives a new index to exactly the slots whose done flag is
\* true in it: such a slot gets num_envs + (episodes finished before the
\* step) + (done slots below it in the same step), so the done slots of one
\* step get consecutive indices in ascending slot order; no other slot's
\* index changes, and next_episode_index grows by the number of done slots.
C16_OnlyDoneSlotsReindexed ==
    LET last == LastBefore("step", Len(trace) + 1)
        settled == pc # "env_loop"
    IN /\ \A p \in Ops("step") : \A i \in Slots :
              (p < last \/ settled \/ i < env_index) =>
                  LET b == DoneBefore(i, p)
                      d == trace[p].done.data
                  IN /\ Len(assigned[i]) >= b + 1
                     /\ d[i] =>
                            /\ Len(assigned[i]) >= b + 2
                            /\ assigned[i][b + 2] =
                                   num_envs + TotalDoneBefore(p)
                                   + Cardinality({j \in Slots : j < i /\ d[j]})
       /\ settled =>
              /\ \A i \in Slots :
                     /\ Len(assigned[i]) = 1 + DoneBefore(i, Len(trace) + 1)
                     /\ current_episode_indices[i] =
                            assigned[i][Len(assigned[i])]
              /\ next_episode_index =
                     num_envs + TotalDoneBefore(Len(trace) + 1)

\* The scenario: from [0,1,2,3], slot 2 is done in step 1, slot 0 in step 2.
C16_Witness ==
    /\ num_envs = 4
    /\ step = 1
    /\ pc = "advance"
    /\ assigned = (0 :> <<0, 5>> @@ 1 :> <<1>> @@ 2 :> <<2, 4>> @@ 3 :> <<3>>)
    /\ current_episode_indices = (0 :> 5 @@ 1 :> 1 @@ 2 :> 4 @@ 3 :> 3)
    /\ next_episode_index = 6

\* The update_memory_batch calls of the call that starts at s, in order.
IsUpdateMemory(e) == e.op = "update_memory_batch"
MemoryUpdates(s) == SelectSeq(SubSeq(trace, s + 1, CallEnd(s)), IsUpdateMemory)

\* C17: the t-th record of the list built by the day stage holds the memory
\* and the observation that the t-th act of the call received, that act's
\* actions and metadata, and the rewards, done flags and next_state of the
\* t-th environment step; so record t's next_state is the content of record
\* t+1's current_state, and record t+1's memory_before is what the t-th
\* update_memory_batch returned.
C17_RecordHoldsPreStepState ==
    pc \in {"act", "env_step", "env_loop", "append", "update_memory",
            "advance", "stack", "night"} =>
        LET s == Max(CallStarts)
            q == ActsAndSteps(s)
            ups == MemoryUpdates(s)
            n == Len(transition_batches)
        IN /\ n = IF pc \in {"update_memory", "advance"} THEN step + 1
                  ELSE step
           /\ \A t \in 1 .. n :
                  LET rec == transition_batches[t]
                  IN /\ rec.memory_before = q[2 * t - 1].memory
                     /\ rec.current_state = q[2 * t - 1].state
                     /\ rec.actions = q[2 * t - 1].actions
                     /\ rec.act_metadata = q[2 * t - 1].act_metadata
                     /\ rec.rewards.data = q[2 * t].rewards.data
                     /\ rec.done.data = q[2 * t].done.data
                     /\ rec.next_state.data = q[2 * t].next_state.data
                     /\ DOMAIN rec = {"memory_before", "current_state",
                                      "actions", "act_metadata", "rewards",
                                      "done", "next_state"}
           /\ \A t \in 1 .. (n - 1) :
                  /\ transition_batches[t].next_state.data =
                         transition_batches[t + 1].current_state.data
                  /\ transition_batches[t + 1].memory_before = ups[t].ret

C17_Witness ==
    /\ pc = "stack"
    /\ calls = 2
    /\ Len(transition_batches) = 2
    /\ num_envs = 2
    /\ metadata_keys # {}
    /\ transition_batches[1].done.data[0]

\* C18: the entries of current_episode_indices are pairwise distinct and each
\* is at least 0 and below next_episode_index, at every moment; whenever no
\* step is half processed, next_episode_index is num_envs plus the number of
\* true done flags returned by all environment steps since construction, of
\* every call.
C18_AllocatorInvariant ==
    /\ DOMAIN current_episode_indices = Slots
    /\ \A i \in Slots :
           /\ current_episode_indices[i] >= 0
           /\ current_episode_indices[i] < next_episode_index
           /\ \A j \in Slots :
                  i # j => current_episode_indices[i] # current_episode_indices[j]
    /\ pc # "env_loop" =>
           next_episode_index = num_envs + TotalDoneBefore(Len(trace) + 1)

C18_Witness ==
    /\ num_envs = 2
    /\ calls = 2
    /\ pc = "idle"
    /\ next_episode_index = 4
    /\ \E s \in CallStarts :
           /\ trace[s].call = 1
           /\ \E p \in OpsInCall(s, "step") : \E i \in Slots :
                  trace[p].done.data[i]
    /\ \E s \in CallStarts :
           /\ trace[s].call = 2
           /\ \E p \in OpsInCall(s, "step") : \E i \in Slots :
                  trace[p].done.data[i]

\* The episode index table as a function of the done flags the environment
\* returned in trace[1 .. k], slots taken in ascending order; it reads neither
\* the stats argument nor any stats-sink call.
RECURSIVE ApplyDone(_, _, _)
ApplyDone(r, done, i) ==
    IF i = num_envs THEN r
    ELSE ApplyDone(IF done[i]
                   THEN [table |-> [r.table EXCEPT ![i] = r.next],
                         next |-> r.next + 1]
                   ELSE r,
                   done, i + 1)
RECURSIVE ReplayDone(_)
ReplayDone(k) ==
    IF k = 0 THEN [table |-> [i \in Slots |-> i], next |-> num_envs]
    ELSE IF trace[k].op = "step"
         THEN ApplyDone(ReplayDone(k - 1), trace[k].done.data, 0)
         ELSE ReplayDone(k - 1)

IsAgentOrEnvCall(e) ==
    e.op \in {"act_on_batch", "step", "update_memory_batch"}
AgentAndEnvCalls(s) ==
    SelectSeq(SubSeq(trace, s + 1, CallEnd(s)), IsAgentOrEnvCall)

\* C19: what the day stage does and leaves behind is a function of the
\* responses of the agent and the environment alone, the same with and
\* without a stats sink: the calls to them are act, step, update in turn,
\* num_collection_steps times, each with the latest responses; between steps
\* the episode index table and next_episode_index are the replay of the done
\* flags returned so far (so indices are allocated without a sink too); the
\* carried observation and memory are the latest responses; the trajectory
\* batch holds the call's responses.
C19_DayIndependentOfSink ==
    /\ \A s \in CallStarts :
           LET q == AgentAndEnvCalls(s)
           IN /\ DayCompleted(s) => Len(q) = 3 * num_collection_steps
              /\ \A j \in 1 .. Len(q) :
                     /\ q[j].op = IF j % 3 = 1 THEN "act_on_batch"
                                  ELSE IF j % 3 = 2 THEN "step"
                                  ELSE "update_memory_batch"
                     /\ j % 3 = 2 => q[j].actions.data = q[j - 1].actions.data
                     /\ j % 3 = 0 =>
                            /\ q[j].prev_memory = q[j - 2].memory
                            /\ q[j].done.data = q[j - 1].done.data
                     /\ (j % 3 = 1 /\ j > 1) =>
                            /\ q[j].state = q[j - 2].next_state
                            /\ q[j].memory = q[j - 1].ret
    /\ pc # "env_loop" =>
           LET r == ReplayDone(Len(trace))
           IN /\ current_episode_indices = r.table
              /\ next_episode_index = r.next
    /\ pc \in {"idle", "act", "stack", "night"} =>
           LET st == LastBefore("step", Len(trace) + 1)
               up == LastBefore("update_memory_batch", Len(trace) + 1)
           IN /\ current_state_batch_np =
                     IF st = 0 THEN trace[2].ret ELSE trace[st].next_state
              /\ agent_memory = IF up = 0 THEN trace[1].ret ELSE trace[up].ret
    /\ pc = "night" =>
           trajectory_batch = Stack(transition_batches)
    /\ pc \in {"stack", "night"} =>
           \A t \in 1 .. Len(transition_batches) :
               LET q == AgentAndEnvCalls(Max(CallStarts))
               IN /\ transition_batches[t].actions = q[3 * t - 2].actions
                  /\ transition_batches[t].done.data = q[3 * t - 1].done.data
                  /\ transition_batches[t].next_state.data =
                         q[3 * t - 1].next_state.data

\* A call without a sink in which a slot finished an episode and got a new
\* index, after a call with a sink.
C19_Witness ==
    /\ calls = 2
    /\ pc = "night"
    /\ stats = "None"
    /\ num_envs = 2
    /\ num_collection_steps = 2
    /\ trace[LastBefore("run_training_step", Max(CallStarts))].stats = "sink"
    /\ \E p \in OpsInCall(Max(CallStarts), "step") : \E i \in Slots :
           /\ trace[p].done.data[i]
           /\ current_episode_indices[i] >= num_envs
    /\ \A p \in OpsInCall(LastBefore("run_training_step", Max(CallStarts)), "step") : \A i \in Slots :
           ~trace[p].done.data[i]
====
